---- MODULE Spec2Model ----
(***************************************************************************)
(* Model of the scanning core of CountCode:                                *)
(*   src/src/components/text-recognition-camera/index.tsx                  *)
(* The frame processor (a worklet on the camera thread) posts calls to the *)
(* JS thread; the JS thread runs one task at a time (a posted call, a      *)
(* timer continuation of an async handler, a UI event) up to its next      *)
(* await.  Strings are sequences of one-character strings.                 *)
(***************************************************************************)
EXTENDS Integers, Sequences, FiniteSets, TLC

VARIABLES
  startValue,          \* prop: text typed on the input screen
  endValue,            \* prop
  scanningType,        \* shared value, "Polyboard" or "Abf"
  labels,              \* which labels are in front of the camera
  scannedValueShared,  \* shared value: the accepted values, in order
  isHandlingData,      \* shared value: the busy flag
  cameraFrame,         \* shared value: [set, width, height]
  scanBoxLayout,       \* shared value: TRUE once onScanBoxLayout has run
  cameraLayout,        \* shared value: TRUE once onCameraLayout has run
  jsQueue,             \* calls posted to the JS thread by useRunOnJS, FIFO
  timers,              \* async handlers suspended in AppUtils.delay, FIFO
  toasts,              \* what useToast has been asked to show, in order
  ticks,               \* number of rate-limited ticks so far
  lastTick,            \* what the frame processor did with its latest tick
  lastDone,            \* record of the cycle that ended last
  prevDone,            \* record of the cycle that ended before it
  navigated,           \* the payload handed to the result screen
  norm,                \* input and output of one label normalisation
  form,                \* input screen: startValue, endValue, selectedId
  route                \* what the input screen navigated to the scanner with

vars == <<startValue, endValue, scanningType, labels, scannedValueShared,
          isHandlingData, cameraFrame, scanBoxLayout, cameraLayout, jsQueue,
          timers, toasts, ticks, lastTick, lastDone, prevDone, navigated,
          norm, form, route>>

----------------------------------------------------------------------------
(* Bounds of the model *)

MaxTicks == 2

MaxBlocks == 2

----------------------------------------------------------------------------
(* Text: JavaScript string operations on sequences of characters *)

Digits == <<"0", "1", "2", "3", "4", "5", "6", "7", "8", "9">>

IsDigit(c) == \E k \in 1..10 : Digits[k] = c

DigitVal(c) == (CHOOSE k \in 1..10 : Digits[k] = c) - 1

IsWhite(c) == c = " "

RECURSIVE trimStart(_)
trimStart(s) ==
  IF s # <<>> /\ IsWhite(Head(s)) THEN trimStart(Tail(s)) ELSE s

RECURSIVE trimEnd(_)
trimEnd(s) ==
  IF s # <<>> /\ IsWhite(s[Len(s)])
    THEN trimEnd(SubSeq(s, 1, Len(s) - 1))
    ELSE s

\* String.prototype.trim
trim(s) == trimEnd(trimStart(s))

\* s.replaceAll('*', '')
replaceAllStar(s) == SelectSeq(s, LAMBDA c : c # "*")

\* s.slice(1)
slice1(s) == IF s = <<>> THEN <<>> ELSE Tail(s)

RECURSIVE digitPrefix(_)
digitPrefix(s) ==
  IF s # <<>> /\ IsDigit(Head(s))
    THEN <<Head(s)>> \o digitPrefix(Tail(s))
    ELSE <<>>

RECURSIVE digitsValue(_, _)
digitsValue(s, acc) ==
  IF s = <<>> THEN acc ELSE digitsValue(Tail(s), 10 * acc + DigitVal(Head(s)))

NaN == [nan |-> TRUE, v |-> 0]

Num(n) == [nan |-> FALSE, v |-> n]

\* parseInt(s, 10): leading white space, an optional sign, then the longest
\* run of digits; NaN when there is no digit.
parseInt(s) ==
  LET t == trimStart(s)
      signed == t # <<>> /\ Head(t) \in {"-", "+"}
      d == digitPrefix(IF signed THEN Tail(t) ELSE t)
  IN  IF d = <<>> THEN NaN
      ELSE IF signed /\ Head(t) = "-" THEN Num(0 - digitsValue(d, 0))
      ELSE Num(digitsValue(d, 0))

\* a >= b and a <= b on numbers: false as soon as one side is NaN
Ge(a, b) == ~a.nan /\ ~b.nan /\ a.v >= b.v

Le(a, b) == ~a.nan /\ ~b.nan /\ a.v <= b.v

\* Array.prototype.includes / Set.prototype.has on a sequence
includes(seq, x) == \E k \in 1..Len(seq) : seq[k] = x

\* Set.prototype.add: insertion order, no second copy
setAdd(seq, x) == IF includes(seq, x) THEN seq ELSE Append(seq, x)

DUPLICATE == <<"d", "u", "p", "l", "i", "c", "a", "t", "e", ":">>

\* value.startsWith('duplicate:')
startsWithDuplicate(s) ==
  Len(s) >= Len(DUPLICATE) /\ SubSeq(s, 1, Len(DUPLICATE)) = DUPLICATE

\* value.replace('duplicate:', '') on a value that starts with it
replaceDuplicate(s) == SubSeq(s, Len(DUPLICATE) + 1, Len(s))

RECURSIVE natToText(_)
natToText(n) ==
  IF n < 10 THEN <<Digits[n + 1]>>
  ELSE natToText(n \div 10) \o <<Digits[(n % 10) + 1]>>

\* String(n) of an integer
intToText(n) == IF n < 0 THEN <<"-">> \o natToText(0 - n) ELSE natToText(n)

----------------------------------------------------------------------------
(* Inputs: what the user typed, what the recogniser returns *)

\* start and end values the session may have been opened with
Ranges == { <<<<"1", "0", "0">>, <<"1", "0", "5">>>> }

ScanTypes == {"Polyboard", "Abf"}

\* A recognised block: its text, where it lies (pos orders the blocks the way
\* getSortedBlocksInScanBox does, inBox is whether its mapped rectangle
\* intersects the scan box) and the verdict of the template's pattern on it.
Block(text, pos, inBox, matches) ==
  [blockText |-> text, pos |-> pos, inBox |-> inBox, matches |-> matches]

PolyBlocks ==
  { Block(<<"*", "P", "1", "0", "2", "*">>, 1, TRUE, TRUE),
    Block(<<"*", "P", "1", "0", "3", "*">>, 2, TRUE, TRUE),
    Block(<<"*", "1", "0", "2", "*">>, 3, TRUE, TRUE),
    Block(<<"*", "P", "1", "0", "4", "*">>, 4, FALSE, TRUE),
    Block(<<"P", "1", "0", "5">>, 5, TRUE, FALSE) }

AbfBlocks ==
  { Block(<<"1", "0", "2">>, 1, TRUE, TRUE),
    Block(<<" ", "1", "0", "3", " ">>, 2, TRUE, TRUE),
    Block(<<"2", "0", "0">>, 3, TRUE, TRUE),
    Block(<<"1", "0", "4">>, 4, FALSE, TRUE),
    Block(<<"1", "0", "5", "x">>, 5, TRUE, FALSE) }

\* Polyboard labels of the harder kind: the prefix alone (normalises to the
\* empty text), a letter after the prefix (does not parse), a label without
\* prefix (parses to 2); and one label that gives the value 102
HardBlocks ==
  { Block(<<"*", "P", "*">>, 1, TRUE, TRUE),
    Block(<<"*", "P", "X", "*">>, 2, TRUE, TRUE),
    Block(<<"*", "1", "0", "2", "*">>, 3, TRUE, TRUE),
    Block(<<"*", "P", "1", "0", "2", "*">>, 4, TRUE, TRUE) }

\* Polyboard labels that differ in their prefix and give the same value 102,
\* and one that gives 103
TwinBlocks ==
  { Block(<<"*", "P", "1", "0", "2", "*">>, 1, TRUE, TRUE),
    Block(<<"*", "X", "1", "0", "2", "*">>, 2, TRUE, TRUE),
    Block(<<"*", "P", "1", "0", "3", "*">>, 3, TRUE, TRUE) }

\* the blocks the recogniser can find: the labels of the session's template,
\* or one of the two other sets of Polyboard labels
BlocksOf(stock) ==
  IF stock = "Hard" THEN HardBlocks
  ELSE IF stock = "Twin" THEN TwinBlocks
  ELSE IF stock = "Polyboard" THEN PolyBlocks
  ELSE AbfBlocks

SeqsUpTo(S, n) == UNION { [1..k -> S] : k \in 0..n }

\* scanText(frame): no result at all, or a result with a list of blocks
\* taken from the labels in front of the camera
ResultsOf(blocks) ==
  { [present |-> FALSE, blocks |-> <<>>] } \cup
  { [present |-> TRUE, blocks |-> b] : b \in SeqsUpTo(blocks, MaxBlocks) }

NoResult == [present |-> FALSE, blocks |-> <<>>]

\* appUtils.logicalHeight
logicalHeight == 2

FrameWidths == {1}

FrameHeights == {0, 1, 2}

NoFrame == [set |-> FALSE, width |-> 0, height |-> 0]

NoCall == [fn |-> "none", seen |-> {}, qual |-> 0, scannedValues |-> <<>>,
           values |-> <<>>, i |-> 0, shown |-> <<>>, solo |-> TRUE,
           accEnd |-> <<>>]

NoPayload == [sent |-> FALSE, scannedData |-> <<>>, startValue |-> <<>>,
              endValue |-> <<>>]

NoNorm == [prefix |-> "", n |-> 0, done |-> FALSE, raw |-> <<>>, ok |-> FALSE]

\* the input screen as it mounts: both fields empty, the first button selected
NoForm == [startValue |-> <<>>, endValue |-> <<>>, selectedId |-> "1"]

NoRoute == [sent |-> FALSE, startValue |-> <<>>, endValue |-> <<>>,
            scanType |-> "Polyboard"]

----------------------------------------------------------------------------
(* Helpers of the component *)

\* isValidInRange without its upper bound
isValidInRange_NoUpperBound(val) ==
  Ge(parseInt(val), parseInt(startValue))

\* a range check that lets a value through when it does not parse
isValidInRange_NaNPasses(val) ==
  LET num == parseInt(val)
      start == parseInt(startValue)
      end == parseInt(endValue)
  IN  num.nan \/ (Ge(num, start) /\ Le(num, end))

isValidInRange(val) ==
  LET num == parseInt(val)
      start == parseInt(startValue)
      end == parseInt(endValue)
  IN  Ge(num, start) /\ Le(num, end)

\* POLYBOARD_SCAN_REGEX.test(block.blockText)
POLYBOARD_SCAN_REGEX(block) == block.matches

\* ABF_SCAN_REGEX.test(rawValue)
ABF_SCAN_REGEX(block) == block.matches

\* appUtils.isBlockInScanBox(block, scanBoxLayout, cameraLayout, cameraFrame)
isBlockInScanBox(block) ==
  scanBoxLayout /\ cameraLayout /\ cameraFrame.set /\ block.inBox

RECURSIVE insertByPos(_, _)
insertByPos(sorted, b) ==
  IF sorted = <<>> THEN <<b>>
  ELSE IF b.pos < Head(sorted).pos THEN <<b>> \o sorted
  ELSE <<Head(sorted)>> \o insertByPos(Tail(sorted), b)

RECURSIVE getSortedBlocksInScanBox(_)
getSortedBlocksInScanBox(blocks) ==
  IF blocks = <<>> THEN <<>>
  ELSE insertByPos(getSortedBlocksInScanBox(SubSeq(blocks, 1, Len(blocks) - 1)),
                   blocks[Len(blocks)])

\* the normalisation without dropping the prefix character
polyRawValue_NoSlice(blockText) == replaceAllStar(trim(blockText))

\* the normalisation without stripping the stars
polyRawValue_KeepStars(blockText) == slice1(trim(blockText))

\* the normalisation of a Polyboard label
polyRawValue(blockText) == slice1(replaceAllStar(trim(blockText)))

polyMatchedBlocks(result) ==
  SelectSeq(SelectSeq(result.blocks, POLYBOARD_SCAN_REGEX), isBlockInScanBox)

\* isDontExist looking at this cycle's values only
isDontExist_ThisCycleOnly(newValues, scannedValues, rawValue) ==
  ~includes(newValues, rawValue)

isDontExist(newValues, scannedValues, rawValue) ==
  ~includes(newValues, rawValue) /\ ~includes(scannedValues, rawValue)

\* a forEach body that marks every repeat as a duplicate, also the repeat of
\* a value that is new in this cycle
polyVisit_FlagsEveryRepeat(newValues, scannedValues, matchedBlock) ==
  LET rawValue == polyRawValue(matchedBlock.blockText) IN
    IF matchedBlock.blockText = <<>> THEN newValues
    ELSE IF rawValue = <<>> THEN newValues
    ELSE IF ~isValidInRange(rawValue) THEN newValues
    ELSE IF isDontExist(newValues, scannedValues, rawValue)
      THEN setAdd(newValues, rawValue)
      ELSE setAdd(newValues, DUPLICATE \o rawValue)

\* the body of matchedBlocks.forEach for one block
polyVisit(newValues, scannedValues, matchedBlock) ==
  LET rawValue == polyRawValue(matchedBlock.blockText)
      nv1 == IF isDontExist(newValues, scannedValues, rawValue)
               THEN setAdd(newValues, rawValue)
               ELSE newValues
  IN  IF matchedBlock.blockText = <<>> THEN newValues
      ELSE IF rawValue = <<>> THEN newValues
      ELSE IF ~isValidInRange(rawValue) THEN newValues
      ELSE IF includes(scannedValues, rawValue)
        THEN setAdd(nv1, DUPLICATE \o rawValue)
        ELSE nv1

RECURSIVE polyNewValues(_, _, _)
polyNewValues(matchedBlocks, scannedValues, newValues) ==
  IF matchedBlocks = <<>> THEN newValues
  ELSE polyNewValues(Tail(matchedBlocks), scannedValues,
                     polyVisit(newValues, scannedValues, Head(matchedBlocks)))

\* the list written back at the end of a Polyboard cycle
polyWriteBack(scannedValues, newValues) ==
  scannedValues \o SelectSeq(newValues, LAMBDA v : ~startsWithDuplicate(v))

\* the toast of one entry of newValues
polyToast(value) ==
  IF startsWithDuplicate(value)
    THEN [type |-> "info", value |-> replaceDuplicate(value)]
    ELSE [type |-> "success", value |-> value]

abfQualifies(block) ==
  /\ ABF_SCAN_REGEX(block)
  /\ isValidInRange(trim(block.blockText))
  /\ isBlockInScanBox(block)

abfMatchedBlocks(result) == SelectSeq(result.blocks, abfQualifies)

\* the threshold letting a single qualifying block through
abfTooFew_OnlyNone(matchedBlocks) == Len(matchedBlocks) = 0

\* !matchedBlocks.length || matchedBlocks.length <= 1
abfTooFew(matchedBlocks) == Len(matchedBlocks) = 0 \/ Len(matchedBlocks) <= 1

abfUniqueValues(matchedBlocks) ==
  <<trim(getSortedBlocksInScanBox(matchedBlocks)[1].blockText)>>

----------------------------------------------------------------------------
(* State after the component has mounted *)

Init ==
  /\ \E r \in Ranges : startValue = r[1] /\ endValue = r[2]
  /\ scanningType \in ScanTypes
  /\ labels = scanningType
  /\ scannedValueShared = <<>>
  /\ isHandlingData = FALSE
  /\ cameraFrame = NoFrame
  /\ scanBoxLayout = FALSE
  /\ cameraLayout = FALSE
  /\ jsQueue = <<>>
  /\ timers = <<>>
  /\ toasts = <<>>
  /\ ticks = 0
  /\ lastTick = "none"
  /\ lastDone = NoCall
  /\ prevDone = NoCall
  /\ navigated = NoPayload
  /\ norm = NoNorm
  /\ form = NoForm
  /\ route = NoRoute

props == <<startValue, endValue, scanningType, labels, norm, form, route>>

\* the camera thread's counters
tick == <<ticks, lastTick>>

done == <<lastDone, prevDone>>

----------------------------------------------------------------------------
(* Camera thread *)

\* the busy check that lets every tick through
tickPasses_Always == TRUE

\* the busy check of the frame processor
tickPasses == ~isHandlingData

\* what one tick posts to the JS thread: useHandleFrameOnJS(frame), then
\* useHandleDataOnJS(scanText(frame))
tickPosts == <<"frame", "data">>

\* a frame processor that keeps the recognition call of a busy tick for later
frameProcessor_Backlog ==
  /\ ~navigated.sent
  /\ ticks < MaxTicks
  /\ ticks' = ticks + 1
  /\ lastTick' = IF tickPasses THEN "taken" ELSE "dropped"
  /\ jsQueue' = IF tickPasses THEN jsQueue \o tickPosts
                 ELSE Append(jsQueue, "data")
  /\ UNCHANGED <<props, scannedValueShared, isHandlingData, cameraFrame,
                 scanBoxLayout, cameraLayout, timers, toasts, done,
                 navigated>>

\* frameProcessor: one rate-limited tick.  The two useRunOnJS calls post the
\* frame and the recognised data to the JS thread; what they carry is read
\* only when the JS thread runs them.
frameProcessor ==
  /\ ~navigated.sent
  /\ ticks < MaxTicks
  /\ ticks' = ticks + 1
  /\ lastTick' = IF tickPasses THEN "taken" ELSE "dropped"
  /\ jsQueue' = IF tickPasses THEN jsQueue \o tickPosts ELSE jsQueue
  /\ UNCHANGED <<props, scannedValueShared, isHandlingData, cameraFrame,
                 scanBoxLayout, cameraLayout, timers, toasts, done,
                 navigated>>

----------------------------------------------------------------------------
(* JS thread *)

onScanBoxLayout ==
  /\ ~scanBoxLayout
  /\ scanBoxLayout' = TRUE
  /\ UNCHANGED <<props, scannedValueShared, isHandlingData, cameraFrame,
                 cameraLayout, jsQueue, timers, toasts, tick, done,
                 navigated>>

onCameraLayout ==
  /\ ~cameraLayout
  /\ cameraLayout' = TRUE
  /\ UNCHANGED <<props, scannedValueShared, isHandlingData, cameraFrame,
                 scanBoxLayout, jsQueue, timers, toasts, tick, done,
                 navigated>>

useHandleFrameOnJS ==
  /\ jsQueue # <<>> /\ Head(jsQueue) = "frame"
  /\ jsQueue' = Tail(jsQueue)
  /\ \E w \in FrameWidths, h \in FrameHeights :
       cameraFrame' = [set |-> TRUE, width |-> w, height |-> h]
  /\ UNCHANGED <<props, scannedValueShared, isHandlingData, scanBoxLayout,
                 cameraLayout, timers, toasts, tick, done, navigated>>

\* the early return of useHandleDataOnJS
frameTooSmall ==
  cameraFrame.set /\ cameraFrame.height # 0
    /\ cameraFrame.height < logicalHeight

\* the texts of a list of blocks
textsOf(blocks) == { blocks[k].blockText : k \in 1..Len(blocks) }

\* Record of one cycle: the locals the handler keeps across its awaits
\* (scannedValues, values, i) and, for the properties, what the cycle was
\* given (seen: the texts of its matched blocks; qual: how many blocks
\* passed the filter of handleScanAbf), what it has shown so far, and
\* whether no other cycle was suspended when it began.
Call(fn, seen, qual, scannedValues, values) ==
  [fn |-> fn, seen |-> seen, qual |-> qual,
   scannedValues |-> scannedValues, values |-> values, i |-> 1,
   shown |-> <<>>, solo |-> timers = <<>>, accEnd |-> <<>>]

\* a cycle ends: it becomes lastDone
Ends(call) ==
  /\ lastDone' = [call EXCEPT !.accEnd = scannedValueShared']
  /\ prevDone' = lastDone

\* the emptiness test that looks only for a missing result
isEmptyResult_OnlyAbsent(result) == ~result.present

\* !result?.blocks?.length
isEmptyResult(result) == ~result.present \/ result.blocks = <<>>

\* an early return that leaves the flag set
flagAfterAbort_StaysSet == TRUE

\* the value isHandlingData is given when a handler returns early
flagAfterAbort == FALSE

\* handleScanPolyBoardResult up to its first await, or to its end
handleScanPolyBoardResult(result) ==
  LET scannedValues == scannedValueShared
      matchedBlocks == polyMatchedBlocks(result)
      newValues == polyNewValues(matchedBlocks, scannedValues, <<>>)
      call == Call("poly", textsOf(matchedBlocks), 0, scannedValues, newValues)
  IN  IF isEmptyResult(result) THEN
        UNCHANGED <<scannedValueShared, isHandlingData, timers, toasts, done>>
      ELSE IF matchedBlocks = <<>> THEN
        /\ isHandlingData' = flagAfterAbort
        /\ UNCHANGED <<scannedValueShared, timers, toasts>>
        /\ Ends(call)
      ELSE IF newValues = <<>> THEN
        /\ scannedValueShared' = polyWriteBack(scannedValues, newValues)
        /\ isHandlingData' = FALSE
        /\ Ends(call)
        /\ UNCHANGED <<timers, toasts>>
      ELSE
        /\ isHandlingData' = TRUE
        /\ toasts' = Append(toasts, polyToast(newValues[1]))
        /\ timers' = Append(timers,
                       [call EXCEPT !.shown = <<polyToast(newValues[1])>>])
        /\ UNCHANGED <<scannedValueShared, done>>

\* the duplicate test that never finds the value
abfIsDuplicate_Never(value) == FALSE

\* one iteration of the loop of processAlertsSequentially, up to its await
abfIsDuplicate(value) == includes(scannedValueShared, value)

abfToast(value) ==
  [type |-> IF abfIsDuplicate(value) THEN "info" ELSE "success",
   value |-> value]

\* an append put off until after the delay: the toast step leaves the list
abfAppend_AfterDelay(value) == scannedValueShared

abfAppend(value) ==
  IF abfIsDuplicate(value) THEN scannedValueShared
  ELSE Append(scannedValueShared, value)

\* handleScanAbf up to the first await of processAlertsSequentially
handleScanAbf(result) ==
  LET scannedValues == scannedValueShared
      matchedBlocks == abfMatchedBlocks(result)
      call == Call("abf", textsOf(matchedBlocks), Len(matchedBlocks),
                   scannedValues, <<>>)
  IN  IF isEmptyResult(result) THEN
        UNCHANGED <<scannedValueShared, isHandlingData, timers, toasts, done>>
      ELSE IF abfTooFew(matchedBlocks) THEN
        /\ isHandlingData' = flagAfterAbort
        /\ UNCHANGED <<scannedValueShared, timers, toasts>>
        /\ Ends(call)
      ELSE
        LET values == abfUniqueValues(matchedBlocks) IN
        /\ isHandlingData' = TRUE
        /\ toasts' = Append(toasts, abfToast(values[1]))
        /\ scannedValueShared' = abfAppend(values[1])
        /\ timers' = Append(timers,
                       [call EXCEPT !.values = values,
                                    !.shown = <<abfToast(values[1])>>])
        /\ UNCHANGED done

\* the next call the JS thread has to run is a posted useHandleDataOnJS
dataPosted == jsQueue # <<>> /\ Head(jsQueue) = "data"

\* the JS thread runs the posted call useHandleDataOnJS(data)
handleDataOnJS(data) ==
  /\ dataPosted
  /\ jsQueue' = Tail(jsQueue)
  /\ IF frameTooSmall THEN
       UNCHANGED <<scannedValueShared, isHandlingData, timers, toasts, done>>
     ELSE IF scanningType = "Polyboard" THEN handleScanPolyBoardResult(data)
     ELSE handleScanAbf(data)
  /\ UNCHANGED <<props, cameraFrame, scanBoxLayout, cameraLayout, tick,
                 navigated>>

useHandleDataOnJS ==
  /\ dataPosted
  /\ \E data \in ResultsOf(BlocksOf(labels)) : handleDataOnJS(data)

\* AppUtils.delay(1000) of the oldest suspended handler elapses: the handler
\* runs on to its next await or to its end
delayElapsed ==
  /\ timers # <<>>
  /\ LET c == Head(timers) IN
       IF c.i < Len(c.values) THEN
         LET value == c.values[c.i + 1]
             toast == IF c.fn = "poly" THEN polyToast(value) ELSE abfToast(value)
         IN  /\ toasts' = Append(toasts, toast)
             /\ scannedValueShared' =
                  IF c.fn = "poly" THEN scannedValueShared ELSE abfAppend(value)
             /\ timers' = Append(Tail(timers),
                            [c EXCEPT !.i = c.i + 1,
                                      !.shown = Append(c.shown, toast)])
             /\ UNCHANGED <<isHandlingData, done>>
       ELSE
         /\ scannedValueShared' =
              IF c.fn = "poly" THEN polyWriteBack(c.scannedValues, c.values)
              ELSE scannedValueShared
         /\ isHandlingData' = FALSE
         /\ timers' = Tail(timers)
         /\ Ends([c EXCEPT !.solo = c.solo /\ Len(timers) = 1])
         /\ UNCHANGED toasts
  /\ UNCHANGED <<props, cameraFrame, scanBoxLayout, cameraLayout, jsQueue,
                 tick, navigated>>

\* an end of session that has to wait for the suspended cycles
handleEndScan_WaitsForIdle ==
  /\ ~navigated.sent
  /\ timers = <<>>
  /\ navigated' = [sent |-> TRUE, scannedData |-> scannedValueShared,
                   startValue |-> startValue, endValue |-> endValue]
  /\ UNCHANGED <<props, scannedValueShared, isHandlingData, cameraFrame,
                 scanBoxLayout, cameraLayout, jsQueue, timers, toasts, tick,
                 done>>

handleEndScan ==
  /\ ~navigated.sent
  /\ navigated' = [sent |-> TRUE, scannedData |-> scannedValueShared,
                   startValue |-> startValue, endValue |-> endValue]
  /\ UNCHANGED <<props, scannedValueShared, isHandlingData, cameraFrame,
                 scanBoxLayout, cameraLayout, jsQueue, timers, toasts, tick,
                 done>>

Next ==
  \/ frameProcessor
  \/ onScanBoxLayout
  \/ onCameraLayout
  \/ useHandleFrameOnJS
  \/ useHandleDataOnJS
  \/ delayElapsed
  \/ handleEndScan

Spec == Init /\ [][Next]_vars

\* A Polyboard session in front of the harder labels
HardInit ==
  /\ \E r \in Ranges : startValue = r[1] /\ endValue = r[2]
  /\ scanningType = "Polyboard"
  /\ labels = "Hard"
  /\ scannedValueShared = <<>>
  /\ isHandlingData = FALSE
  /\ cameraFrame = NoFrame
  /\ scanBoxLayout = FALSE
  /\ cameraLayout = FALSE
  /\ jsQueue = <<>>
  /\ timers = <<>>
  /\ toasts = <<>>
  /\ ticks = 0
  /\ lastTick = "none"
  /\ lastDone = NoCall
  /\ prevDone = NoCall
  /\ navigated = NoPayload
  /\ norm = NoNorm
  /\ form = NoForm
  /\ route = NoRoute

SpecHard == HardInit /\ [][Next]_vars

\* A Polyboard session in front of labels that share a value
TwinInit ==
  /\ \E r \in Ranges : startValue = r[1] /\ endValue = r[2]
  /\ scanningType = "Polyboard"
  /\ labels = "Twin"
  /\ scannedValueShared = <<>>
  /\ isHandlingData = FALSE
  /\ cameraFrame = NoFrame
  /\ scanBoxLayout = FALSE
  /\ cameraLayout = FALSE
  /\ jsQueue = <<>>
  /\ timers = <<>>
  /\ toasts = <<>>
  /\ ticks = 0
  /\ lastTick = "none"
  /\ lastDone = NoCall
  /\ prevDone = NoCall
  /\ navigated = NoPayload
  /\ norm = NoNorm
  /\ form = NoForm
  /\ route = NoRoute

SpecTwin == TwinInit /\ [][Next]_vars

\* The JS event loop runs every posted call and every elapsed timer.
LiveSpec ==
  /\ Spec
  /\ WF_vars(useHandleFrameOnJS)
  /\ WF_vars(useHandleDataOnJS)
  /\ WF_vars(delayElapsed)

----------------------------------------------------------------------------
(* The normalisation and range check of one Polyboard label, on its own *)

PrefixChars == {"P", "X", "1", "*", " "}

LabelNumbers == -2..12

RangeBounds == {-1, 0, 3, 10}

\* the label text: one prefix character, the digits of n, a trailing star
labelText(prefix, n) == <<prefix>> \o intToText(n) \o <<"*">>

NormInit ==
  /\ \E s \in RangeBounds, e \in RangeBounds :
       startValue = intToText(s) /\ endValue = intToText(e)
  /\ \E c \in PrefixChars, n \in LabelNumbers :
       norm = [NoNorm EXCEPT !.prefix = c, !.n = n]
  /\ scanningType = "Polyboard"
  /\ labels = "Polyboard"
  /\ scannedValueShared = <<>>
  /\ isHandlingData = FALSE
  /\ cameraFrame = NoFrame
  /\ scanBoxLayout = FALSE
  /\ cameraLayout = FALSE
  /\ jsQueue = <<>>
  /\ timers = <<>>
  /\ toasts = <<>>
  /\ ticks = 0
  /\ lastTick = "none"
  /\ lastDone = NoCall
  /\ prevDone = NoCall
  /\ navigated = NoPayload
  /\ form = NoForm
  /\ route = NoRoute

\* lines 158-164 applied to the label: rawValue, then the two early returns
normalizeLabel ==
  /\ ~norm.done
  /\ LET rawValue == polyRawValue(labelText(norm.prefix, norm.n)) IN
       norm' = [norm EXCEPT !.done = TRUE, !.raw = rawValue,
                            !.ok = rawValue # <<>> /\ isValidInRange(rawValue)]
  /\ UNCHANGED <<startValue, endValue, scanningType, labels,
                 scannedValueShared, isHandlingData, cameraFrame,
                 scanBoxLayout, cameraLayout, jsQueue, timers, toasts, tick,
                 done, navigated, form, route>>

NormNext == normalizeLabel

SpecNorm == NormInit /\ [][NormNext]_vars

----------------------------------------------------------------------------
(* The input screen: src/src/screens/input-screen/index.tsx *)

\* what the user may type into a field (numeric keyboard, at most 7 characters)
InputTexts ==
  { <<>>, <<"0">>, <<"7">>, <<"1", "0", "0">>, <<"1", "0", "5">> }

\* the radio buttons of the template choice
values ==
  << [id |-> "1", value |-> "Polyboard"], [id |-> "2", value |-> "Abf"] >>

\* values.find(value => value.id === selectedId)?.value ?? ScanType.Polyboard
scanTypeOf(selectedId) ==
  IF \E k \in 1..Len(values) : values[k].id = selectedId
    THEN values[CHOOSE k \in 1..Len(values) : values[k].id = selectedId].value
    ELSE "Polyboard"

\* a scan button that only looks at the first field
scanDisabled_OnlyStart == form.startValue = <<>>

\* disabled={!startValue || !endValue}
scanDisabled == form.startValue = <<>> \/ form.endValue = <<>>

InputInit ==
  /\ form = NoForm
  /\ route = NoRoute
  /\ startValue = <<>> /\ endValue = <<>>
  /\ scanningType = "Polyboard"
  /\ labels = "Polyboard"
  /\ scannedValueShared = <<>>
  /\ isHandlingData = FALSE
  /\ cameraFrame = NoFrame
  /\ scanBoxLayout = FALSE
  /\ cameraLayout = FALSE
  /\ jsQueue = <<>>
  /\ timers = <<>>
  /\ toasts = <<>>
  /\ ticks = 0
  /\ lastTick = "none"
  /\ lastDone = NoCall
  /\ prevDone = NoCall
  /\ navigated = NoPayload
  /\ norm = NoNorm

scanScreen == <<startValue, endValue, scanningType, labels,
                scannedValueShared, isHandlingData, cameraFrame,
                scanBoxLayout, cameraLayout, jsQueue, timers, toasts, tick,
                done, navigated, norm>>

setStartValue ==
  /\ \E text \in InputTexts : form' = [form EXCEPT !.startValue = text]
  /\ UNCHANGED <<route, scanScreen>>

setEndValue ==
  /\ \E text \in InputTexts : form' = [form EXCEPT !.endValue = text]
  /\ UNCHANGED <<route, scanScreen>>

\* RadioGroup onPress: the id of the button pressed
setSelectedId ==
  /\ \E k \in 1..Len(values) : form' = [form EXCEPT !.selectedId = values[k].id]
  /\ UNCHANGED <<route, scanScreen>>

\* the scan button is pressed: it must not be disabled
handleScan ==
  /\ ~scanDisabled
  /\ route' = [sent |-> TRUE, startValue |-> form.startValue,
               endValue |-> form.endValue,
               scanType |-> scanTypeOf(form.selectedId)]
  /\ UNCHANGED <<form, scanScreen>>

InputNext ==
  \/ setStartValue
  \/ setEndValue
  \/ setSelectedId
  \/ handleScan

SpecInput == InputInit /\ [][InputNext]_vars

----------------------------------------------------------------------------
(* Properties *)

Range(seq) == { seq[k] : k \in 1..Len(seq) }

\* a suspended cycle that still has notifications to show
Pending(c) == c.i < Len(c.values)

IsInfo(t) == t.type = "info"

IsSuccess(t) == t.type = "success"

\* C1: at most one processing cycle is in flight: there are never two
\* suspended cycles that both still have notifications to show (the earlier
\* of the two has not finished while the later one runs).
C1_OneCycleInFlight ==
  \A j, k \in 1..Len(timers) :
    j # k => ~(Pending(timers[j]) /\ Pending(timers[k]))

\* C2: no value appears twice in scannedValueShared.
C2_NoDuplicates ==
  \A j, k \in 1..Len(scannedValueShared) :
    j # k => scannedValueShared[j] # scannedValueShared[k]

\* C2 witness: two values have been accepted and a later cycle has recognised
\* one of them again (a duplicate notification was shown).
C2_Witness ==
  /\ Len(scannedValueShared) >= 2
  /\ \E k \in 1..Len(toasts) :
       IsInfo(toasts[k]) /\ toasts[k].value \in Range(scannedValueShared)

\* C3: scannedValueShared never shrinks: every value in it before a step is
\* still in it after the step.
C3_NeverShrinks ==
  [][Range(scannedValueShared) \subseteq Range(scannedValueShared')]_vars

\* C4: every accepted value parses to an integer within
\* [parseInt(startValue), parseInt(endValue)].
C4_AcceptedInRange ==
  \A k \in 1..Len(scannedValueShared) :
    LET n == parseInt(scannedValueShared[k]) IN
      /\ ~n.nan
      /\ ~parseInt(startValue).nan /\ parseInt(startValue).v <= n.v
      /\ ~parseInt(endValue).nan /\ n.v <= parseInt(endValue).v

\* C4 witness: a Polyboard cycle that matched "*102*" (which normalises to
\* "02", below the range) beside another label has ended, and only the
\* value in range was accepted.
C4_Witness ==
  /\ lastDone.fn = "poly"
  /\ <<"*", "1", "0", "2", "*">> \in lastDone.seen
  /\ Cardinality(lastDone.seen) >= 2
  /\ Len(scannedValueShared) = 1

\* C5: isHandlingData is true as long as a cycle is in progress: whenever a
\* suspended cycle still has notifications to show, the flag is true.
C5_BusyWhileInProgress ==
  (\E k \in 1..Len(timers) : Pending(timers[k])) => isHandlingData

\* C6: the flag is false before the first tick, and every time it is set it
\* is reset later: the orchestrator never stays in Processing.
C6_BusyResets ==
  /\ ~isHandlingData
  /\ [](isHandlingData => <>(~isHandlingData))

\* C6 witness: a full ABF cycle and then an early-abort ABF cycle (a single
\* qualifying block) have ended, and the flag is false again.
C6_Witness ==
  /\ prevDone.fn = "abf" /\ prevDone.qual >= 2 /\ prevDone.shown # <<>>
  /\ lastDone.fn = "abf" /\ lastDone.qual = 1
  /\ timers = <<>> /\ jsQueue = <<>>
  /\ ~isHandlingData

\* the ABF cycles the state still knows: suspended, or the last two ended
AbfCycles ==
  { c \in Range(timers) \cup {lastDone, prevDone} : c.fn = "abf" }

posOfText(t) == (CHOOSE b \in AbfBlocks : b.blockText = t).pos

\* the text of the first block in the ordering of getSortedBlocksInScanBox
firstText(seen) ==
  CHOOSE t \in seen : \A u \in seen : posOfText(t) <= posOfText(u)

\* C7: an ABF cycle with fewer than 2 qualifying blocks shows nothing and
\* leaves the list as it was; one with 2 or more shows exactly one toast, for
\* the first block of the ordering; a step of an ABF session shows at most
\* one toast and appends at most one value, the one of a success toast.
C7_AbfThreshold ==
  /\ [](\A c \in AbfCycles :
          /\ c.qual < 2 =>
               c.shown = <<>> /\ c.values = <<>> /\ c.accEnd = c.scannedValues
          /\ c.qual >= 2 =>
               /\ Len(c.shown) = 1 /\ Len(c.values) = 1
               /\ c.shown[1].value = trim(firstText(c.seen)))
  /\ [][scanningType = "Abf" =>
          /\ Len(toasts') <= Len(toasts) + 1
          /\ \/ scannedValueShared' = scannedValueShared
             \/ \E v \in Range(scannedValueShared') :
                  /\ scannedValueShared' = Append(scannedValueShared, v)
                  /\ toasts' = Append(toasts, [type |-> "success", value |-> v])
       ]_vars

\* C7 witness: an ABF cycle with one qualifying block has ended after an ABF
\* cycle with two or more that showed its toast.
C7_Witness ==
  /\ prevDone.fn = "abf" /\ prevDone.qual >= 2 /\ Len(prevDone.shown) = 1
  /\ lastDone.fn = "abf" /\ lastDone.qual = 1
  /\ scannedValueShared # <<>>

Text100 == <<"1", "0", "0">>

Text102 == <<"1", "0", "2">>

Text105 == <<"1", "0", "5">>

StarLabel == <<"*", "1", "0", "2", "*">>

PrefixedLabel == <<"*", "P", "1", "0", "2", "*">>

\* the last ended cycle is a Polyboard cycle of scenario 1: range 100..105,
\* list empty at its start, no other cycle beside it, and the matched blocks
\* in the scan box all carry the text `label`
Scenario1(label) ==
  /\ startValue = Text100 /\ endValue = Text105
  /\ lastDone.fn = "poly"
  /\ lastDone.seen = {label}
  /\ lastDone.scannedValues = <<>>
  /\ lastDone.solo

\* C8 as stated: the cycle that recognised "*102*" ends with the list equal
\* to ["102"] and exactly one success notification.
C8_Scenario1 ==
  Scenario1(StarLabel) =>
    /\ lastDone.accEnd = <<Text102>>
    /\ lastDone.shown = <<[type |-> "success", value |-> Text102]>>

\* C8 amended: the cycle that recognised "*102*" ends with the list still
\* empty and no notification ("02" parses to 2); the cycle that recognised
\* "*P102*" ends with the list equal to ["102"] and one success notification.
C8_Scenario1Amended ==
  /\ Scenario1(StarLabel) =>
       lastDone.accEnd = <<>> /\ lastDone.shown = <<>>
  /\ Scenario1(PrefixedLabel) =>
       /\ lastDone.accEnd = <<Text102>>
       /\ lastDone.shown = <<[type |-> "success", value |-> Text102]>>

\* C8 witness: both cycles of the amended scenario have ended, the one with
\* "*102*" first.
C8_Witness ==
  /\ prevDone.fn = "poly" /\ prevDone.seen = {StarLabel} /\ prevDone.solo
  /\ Scenario1(PrefixedLabel)
  /\ scannedValueShared = <<Text102>>

\* the range the normalised label is checked against
NormRange ==
  [s |-> parseInt(startValue).v, e |-> parseInt(endValue).v]

LabelRoundTrip ==
  /\ norm.raw = intToText(norm.n)
  /\ norm.ok <=> (NormRange.s <= norm.n /\ norm.n <= NormRange.e)

\* C9 as stated: for every prefix character, the label normalises to the
\* decimal string of n and is accepted iff s <= n <= e.
C9_LabelRoundTrip == norm.done => LabelRoundTrip

\* C9 amended: the same for every prefix character that is neither a star
\* nor white space.
C9_LabelRoundTripAmended ==
  (norm.done /\ norm.prefix \notin {"*", " "}) => LabelRoundTrip

\* C9 witness: a label with a letter prefix was normalised and accepted.
C9_Witness ==
  norm.done /\ norm.prefix = "P" /\ norm.ok /\ norm.n = 3

Count(seq, x) == Cardinality({ k \in 1..Len(seq) : seq[k] = x })

\* the value a matched text stands for, read off the text itself
ValueOfText(fn, t) == IF fn = "poly" THEN slice1(replaceAllStar(trim(t))) ELSE trim(t)

InRangeText(v) ==
  LET n == parseInt(v) IN
    /\ ~n.nan
    /\ parseInt(startValue).v <= n.v /\ n.v <= parseInt(endValue).v

\* the valid values a cycle recognised: every in-range text of a Polyboard
\* cycle, the one picked text of an ABF cycle with enough qualifying blocks
Recognised(c) ==
  IF c.fn = "poly"
    THEN { ValueOfText("poly", t) : t \in { u \in c.seen : InRangeText(ValueOfText("poly", u)) } }
  ELSE IF c.fn = "abf" /\ c.qual >= 2 THEN { trim(firstText(c.seen)) }
  ELSE {}

\* prevDone and lastDone are two successive cycles of the session that did
\* not overlap with each other or with any other cycle
Successive ==
  /\ prevDone.fn \in {"poly", "abf"} /\ lastDone.fn = prevDone.fn
  /\ prevDone.solo /\ lastDone.solo
  /\ lastDone.scannedValues = prevDone.accEnd

IsTick == ticks' = ticks + 1

\* C11 as stated: every tick posts an update of cameraFrame to the JS thread,
\* also a tick that arrives while isHandlingData is true.
C11_FrameEveryTick ==
  [][IsTick => Count(jsQueue', "frame") = Count(jsQueue, "frame") + 1]_vars

\* C11 amended: a tick that passes the busy check posts exactly one update of
\* cameraFrame, a tick that arrives while isHandlingData is true posts none;
\* cameraFrame changes only when the JS thread runs a posted update.
C11_FrameOnTakenTick ==
  [][/\ IsTick =>
          /\ cameraFrame' = cameraFrame
          /\ Count(jsQueue', "frame") =
               Count(jsQueue, "frame") + (IF isHandlingData THEN 0 ELSE 1)
     /\ cameraFrame' # cameraFrame =>
          /\ jsQueue # <<>> /\ Head(jsQueue) = "frame"
          /\ jsQueue' = Tail(jsQueue)
    ]_vars

\* C11 witness: the latest tick arrived while the flag was set, and
\* cameraFrame still holds what an earlier tick stored.
C11_Witness ==
  lastTick = "dropped" /\ isHandlingData /\ cameraFrame.set

\* C12: a tick that arrives while isHandlingData is true posts nothing to the
\* JS thread (no recognition call, nothing kept for later), shows no toast
\* and leaves scannedValueShared, isHandlingData and every cycle as they
\* were; a cycle only ever starts from a posted recognition call.
C12_BusyTickDropped ==
  [][/\ (IsTick /\ isHandlingData) =>
          /\ jsQueue' = jsQueue
          /\ UNCHANGED <<scannedValueShared, isHandlingData, timers, toasts,
                         done>>
     /\ Len(timers') > Len(timers) =>
          /\ jsQueue # <<>> /\ Head(jsQueue) = "data"
          /\ jsQueue' = Tail(jsQueue)
    ]_vars

\* C12 witness: the second tick was dropped while the cycle of the first was
\* suspended, and that cycle has since ended with nothing else started.
C12_Witness ==
  /\ ticks = 2 /\ lastTick = "dropped"
  /\ jsQueue = <<>> /\ timers = <<>>
  /\ lastDone.fn # "none" /\ lastDone.shown # <<>>
  /\ ~isHandlingData

\* a step in which the JS thread runs a posted recognition call
IsDataCall == dataPosted /\ jsQueue' = Tail(jsQueue)

\* C13: when the recognition call of a tick runs and the frame stored for the
\* tick is lower than logicalHeight (0 included), the cycle is discarded
\* before any strategy runs: the flag is not set, no toast is shown, the
\* list is unchanged, no cycle begins or ends.
C13_SmallFrameEarlyOut ==
  [][(IsDataCall /\ cameraFrame.set /\ cameraFrame.height < logicalHeight) =>
       /\ isHandlingData' => isHandlingData
       /\ UNCHANGED <<toasts, scannedValueShared, timers, done>>
    ]_vars

\* the results without blocks: none at all, or an empty list
EmptyResults == { NoResult, [present |-> TRUE, blocks |-> <<>>] }

\* C14: a recognition call whose result is absent or has no blocks is a
\* no-op in both templates: the flag keeps its value (false stays false), no
\* toast is shown, the list is unchanged, no cycle begins or ends.
C14_EmptyResultNoOp ==
  [][(\E data \in EmptyResults : handleDataOnJS(data)) =>
       UNCHANGED <<isHandlingData, toasts, scannedValueShared, timers, done>>
    ]_vars

\* C14 witness: the one tick so far stored a frame of usable height and its
\* recognition call has run and left nothing behind (a result with blocks
\* leaves at least the record of its cycle).
C14_Witness ==
  /\ ticks = 1 /\ jsQueue = <<>>
  /\ cameraFrame.set /\ cameraFrame.height = logicalHeight
  /\ scanBoxLayout /\ cameraLayout
  /\ timers = <<>> /\ lastDone = NoCall /\ toasts = <<>>
  /\ ~isHandlingData

\* a Polyboard label text gives a usable value: its normalised text is not
\* empty and parses to an integer of the range
Usable(t) ==
  ValueOfText("poly", t) # <<>> /\ InRangeText(ValueOfText("poly", t))

\* a Polyboard cycle with surviving blocks, none of which gives a value
NothingUsable(c) ==
  c.fn = "poly" /\ c.seen # {} /\ \A t \in c.seen : ~Usable(t)

\* C15: a Polyboard cycle in which no surviving block gives a usable value
\* shows no toast and ends with the list exactly as it was when the cycle
\* began; the step that handles it shows nothing, leaves the list unchanged
\* and leaves isHandlingData false.
C15_SkipCycle ==
  /\ [](\A c \in {lastDone, prevDone} :
          NothingUsable(c) =>
            c.values = <<>> /\ c.shown = <<>> /\ c.accEnd = c.scannedValues)
  /\ [][(done' # done /\ NothingUsable(lastDone')) =>
          /\ ~isHandlingData'
          /\ UNCHANGED <<toasts, scannedValueShared, timers>>
       ]_vars

\* C15 witness: after "102" was accepted, a cycle whose surviving blocks were
\* the prefix alone and a label that does not parse has ended; the list is
\* still ["102"] and the flag is false.
C15_Witness ==
  /\ prevDone.fn = "poly" /\ prevDone.accEnd = <<Text102>>
  /\ NothingUsable(lastDone)
  /\ lastDone.seen = {<<"*", "P", "*">>, <<"*", "P", "X", "*">>}
  /\ lastDone.scannedValues = <<Text102>>
  /\ scannedValueShared = <<Text102>>
  /\ toasts = prevDone.shown
  /\ ~isHandlingData

\* C16: as long as the session has not been ended, ending it is possible,
\* also while cycles are suspended in their delay; the step that ends it
\* hands over scannedValueShared as it is at that moment with startValue and
\* endValue; nothing that happens afterwards alters what was handed over.
C16_EndScanPayload ==
  /\ [](~navigated.sent => ENABLED handleEndScan)
  /\ [][/\ navigated' # navigated =>
             navigated' = [sent |-> TRUE, scannedData |-> scannedValueShared,
                           startValue |-> startValue, endValue |-> endValue]
        /\ navigated.sent => navigated' = navigated
       ]_vars

\* C16 witness: the session was ended with ["102"] while a cycle was still
\* running; that cycle has since appended a second value, which is not in
\* what was handed over.
C16_Witness ==
  /\ navigated.sent /\ navigated.scannedData = <<Text102>>
  /\ navigated.startValue = startValue /\ navigated.endValue = endValue
  /\ Len(scannedValueShared) = 2
  /\ timers = <<>>

\* C17: the scan button can be pressed exactly when both fields are
\* non-empty; the scanner is only ever opened with a non-empty startValue
\* and endValue, and with the values entered and the template selected at
\* the moment of the press.
C17_ScanNeedsBothValues ==
  /\ [](/\ ENABLED handleScan <=>
             (form.startValue # <<>> /\ form.endValue # <<>>)
        /\ route.sent =>
             /\ route.startValue # <<>> /\ route.endValue # <<>>
             /\ route.scanType \in ScanTypes)
  /\ [][route' # route =>
          /\ route'.sent
          /\ route'.startValue = form.startValue
          /\ route'.endValue = form.endValue
          /\ route'.scanType =
               (IF form.selectedId = "2" THEN "Abf" ELSE "Polyboard")
       ]_vars

\* C17 witness: the scanner was opened with 100, 105 and the ABF template,
\* and the end field has been cleared since, which disables the button.
C17_Witness ==
  /\ route.sent /\ route.scanType = "Abf"
  /\ route.startValue = Text100 /\ route.endValue = Text105
  /\ form.endValue = <<>>

Success(v) == [type |-> "success", value |-> v]

Info(v) == [type |-> "info", value |-> v]

\* the Polyboard cycles the state knows to have ended
PolyEnded == { c \in {lastDone, prevDone} : c.fn = "poly" }

OtherPrefixLabel == <<"*", "X", "1", "0", "2", "*">>

\* the value v was carried by more than one surviving block of the cycle
\* (two blocks of different text, the record keeps the texts as a set)
RepeatedIn(c, v) ==
  \E t, u \in c.seen :
    t # u /\ ValueOfText("poly", t) = v /\ ValueOfText("poly", u) = v

\* C18 as stated: a Polyboard cycle shows at most one success per distinct
\* value, and a duplicate notice for every value that a surviving block
\* repeats, whether the value came from an earlier block of the same cycle
\* or was already in the list.
C18_EveryRepeatFlagged ==
  \A c \in PolyEnded :
    \A v \in Recognised(c) :
      /\ Count(c.shown, Success(v)) <= 1
      /\ (v \in Range(c.scannedValues) \/ RepeatedIn(c, v)) =>
           Count(c.shown, Info(v)) >= 1

\* C18 amended: a Polyboard cycle shows, for each distinct value in range it
\* recognised, exactly one toast however many blocks carried it: a duplicate
\* notice when the value was in the list as the cycle began, a success
\* otherwise; it shows nothing else.
C18_OneToastPerValue ==
  \A c \in PolyEnded :
    /\ \A v \in Recognised(c) :
         IF v \in Range(c.scannedValues)
           THEN Count(c.shown, Info(v)) = 1 /\ Count(c.shown, Success(v)) = 0
           ELSE Count(c.shown, Success(v)) = 1 /\ Count(c.shown, Info(v)) = 0
    /\ \A k \in 1..Len(c.shown) : c.shown[k].value \in Recognised(c)

\* C18 witness: a cycle in which two blocks, "*P102*" and "*X102*", carried
\* 102 showed one success and nothing else; the next cycle recognised it
\* again and showed one duplicate notice.
C18_Witness ==
  /\ Successive /\ lastDone.fn = "poly"
  /\ prevDone.seen = {PrefixedLabel, OtherPrefixLabel}
  /\ prevDone.scannedValues = <<>>
  /\ prevDone.shown = <<Success(Text102)>>
  /\ lastDone.seen = {PrefixedLabel}
  /\ lastDone.shown = <<Info(Text102)>>

\* the values a step adds to the list
Added == Range(scannedValueShared') \ Range(scannedValueShared)

\* the values of the success toasts of a list of toasts
SuccessValues(shown) ==
  { shown[k].value : k \in { j \in 1..Len(shown) : shown[j].type = "success" } }

\* C19: a value enters the list only once its success toast has been shown,
\* and only once in the session (there is exactly one success toast for it
\* when it enters); in a Polyboard session the list changes only in the step
\* that ends a cycle after all its toasts, and the values added are exactly
\* the ones that cycle showed a success for, never one it showed a duplicate
\* notice for.
C19_AppendOnceAfterToast ==
  [][/\ \A v \in Added : Count(toasts', Success(v)) = 1
     /\ (scanningType = "Polyboard" /\ Added # {}) =>
          /\ done' # done /\ lastDone'.fn = "poly"
          /\ Len(lastDone'.shown) = Len(lastDone'.values)
          /\ Added = SuccessValues(lastDone'.shown)
          /\ \A v \in Added : Count(lastDone'.shown, Info(v)) = 0
    ]_vars

\* the toasts of the first n entries of a cycle's values, in their order
ToastsInOrder(c) ==
  /\ Len(c.shown) = c.i
  /\ \A k \in 1..c.i :
       /\ c.shown[k].value =
            (IF startsWithDuplicate(c.values[k])
               THEN replaceDuplicate(c.values[k]) ELSE c.values[k])
       /\ c.fn = "poly" =>
            (c.shown[k].type = "info" <=> startsWithDuplicate(c.values[k]))

\* C20: a suspended cycle has shown its entries in their order, one for each
\* delay it has begun; a step shows at most one toast, and when it shows one
\* no other cycle is inside the delay of a toast shown before.
C20_ToastsSerialized ==
  /\ [](\A k \in 1..Len(timers) : ToastsInOrder(timers[k]))
  /\ [][/\ Len(toasts') <= Len(toasts) + 1
        /\ toasts' # toasts => Len(timers') = 1
       ]_vars

\* C21: in an ABF session every value a success toast has been shown for is
\* in the list (the toast and the append are one step), so the step that
\* ends the session hands over a list that holds every such value.
C21_AbfToastInPayload ==
  /\ [](scanningType = "Abf" =>
          SuccessValues(toasts) \subseteq Range(scannedValueShared))
  /\ [][(scanningType = "Abf" /\ navigated' # navigated) =>
          /\ toasts' = toasts
          /\ SuccessValues(toasts) \subseteq Range(navigated'.scannedData)
       ]_vars

\* C21 witness: an ABF session was ended while the cycle that had shown the
\* only toast so far, a success, was still in its delay; the value is in
\* what was handed over.
C21_Witness ==
  /\ scanningType = "Abf" /\ navigated.sent
  /\ timers # <<>>
  /\ Len(toasts) = 1 /\ toasts[1].type = "success"
  /\ navigated.scannedData = <<toasts[1].value>>

====
